---- MODULE Spec2Model ----
(***************************************************************************)
(* Expense categorisation in ExpenseTrade (FinanceTracker application):    *)
(* the memoised load_and_train_model of Home.py and pages/Expenses.py, the *)
(* two artifact files it writes, the module-level joblib.load of           *)
(* pages/Expense.py, and the Add Expense form that pre-fills the category. *)
(*                                                                         *)
(* One process of the Streamlit server is modelled.  Sessions run page     *)
(* scripts in threads of that process, so the trainings of the two         *)
(* decorated functions interleave at their file writes.                    *)
(*                                                                         *)
(* Spec is that process.  SpecForm is one session on Home.py that trains   *)
(* and then fills and submits the Add Expense form.  SpecLib applies the   *)
(* methods of the two estimators to objects in any state of fitting.       *)
(***************************************************************************)
EXTENDS Integers, Sequences, FiniteSets, TLC

VARIABLES
    split42,    \* the row train_test_split(random_state=42) holds out, per dataset size
    cache,      \* st.cache_resource entry of each decorated load_and_train_model
    pc,         \* position of the running load_and_train_model call of each page
    local,      \* locals (vectorizer, model) of that running call
    vecFile,    \* contents of vectorizer.pkl
    modelFile,  \* contents of model.pkl
    runs,       \* training runs started so far (identity of the fitted objects)
    view,       \* what the last page script run showed
    expenses,   \* rows of the expenses table, in insertion order
    session,    \* st.session_state of the browser session
    users,      \* rows of the users table
    goals,      \* rows of the goals table
    stock_purchases,    \* rows of the stock_purchases table
    call        \* the running execute_with_retry or add_stock_purchase call

\* what the categorisation leaves alone
app == <<session, users, goals, stock_purchases, call>>

vars == <<split42, cache, pc, local, vecFile, modelFile, runs, view, expenses,
          session, users, goals, stock_purchases, call>>

----------------------------------------------------------------------------
(* Bounds of the model *)

MaxRuns == 2
MaxSeed == 1
MaxExpenses == 1

----------------------------------------------------------------------------
(* Values *)

None == [kind |-> "none"]

\* the pages whose script defines a cached load_and_train_model
Pages == {"Home", "Expenses"}

DEFAULT_EXPENSE_LIMIT == 500

\* the values typed into the Amount number_input (min_value=0.0)
Amounts == {0, 1, DEFAULT_EXPENSE_LIMIT, DEFAULT_EXPENSE_LIMIT + 1}

\* the fixed list every category selectbox appends
Fallback == <<"Food", "Transport", "Entertainment", "Bills", "Others">>

\* numpy orders classes_ by string comparison
LabelOrder == <<"Bills", "Entertainment", "Food", "Others", "Rent", "Transport">>

\* the texts a user can type in st.text_area
Descriptions == {
    <<>>,                        \* nothing typed
    <<" ">>,                     \* blank
    <<"a">>,                     \* no token of two characters
    <<"a","a">>,                 \* a term of every vocabulary
    <<"a","b">>,                 \* a term of one vocabulary only
    <<"a","a"," ","b","b">>      \* two terms
}

\* contents categories_dataset.csv can have: rows of <<description, category>>.
\* pd.read_csv reads an empty field as NaN: <<>> and "" stand for it.
Datasets == <<
    \* header only
    <<>>,
    \* a single row
    << <<<<"a","a">>, "Food">> >>,
    \* two terms, two categories
    << <<<<"a","a">>, "Food">>,
       <<<<"A","a"," ","a","a">>, "Food">>,
       <<<<"b","b">>, "Bills">>,
       <<<<"b","b"," ","a">>, "Bills">>,
       <<<<"a","a">>, "Food">> >>,
    \* three terms, three categories, one outside the fallback list
    << <<<<"a","b">>, "Rent">>,
       <<<<"a","a"," ","a","b">>, "Rent">>,
       <<<<"b","b">>, "Bills">>,
       <<<<"a","a">>, "Food">>,
       <<<<"b","b"," ","b","b">>, "Bills">> >>,
    \* a row without description
    << <<<<"a","a">>, "Food">>,
       <<<<>>, "Food">>,
       <<<<"b","b">>, "Bills">>,
       <<<<"b","b">>, "Bills">>,
       <<<<"a","a">>, "Food">> >>,
    \* a row without category
    << <<<<"a","a">>, "Food">>,
       <<<<"a","a">>, "Food">>,
       <<<<"b","b">>, "Bills">>,
       <<<<"b","b">>, "Bills">>,
       <<<<"a","a">>, "">> >>
>>

DatasetIds == 1..Len(Datasets)
FileMissing == 0

Range(s) == {s[i] : i \in DOMAIN s}

\* the distinct category strings of a training set
LabelSet(rows) == {rows[i][2] : i \in DOMAIN rows}

----------------------------------------------------------------------------
(* TfidfVectorizer() with its defaults: lowercase, tokens of two or more   *)
(* word characters, vocabulary = the terms of the corpus.                  *)

IsWordChar(c) == c # " "

Lower(c) == CASE c = "A" -> "a" [] c = "B" -> "b" [] OTHER -> c

Flush(word) == IF Len(word) >= 2 THEN <<word>> ELSE <<>>

RECURSIVE Scan(_, _, _)
Scan(d, i, word) ==
    IF i > Len(d) THEN Flush(word)
    ELSE IF IsWordChar(d[i]) THEN Scan(d, i + 1, Append(word, Lower(d[i])))
    ELSE Flush(word) \o Scan(d, i + 1, <<>>)

Tokenize(d) == Scan(d, 1, <<>>)

\* a loader that drops the rows repeating an earlier description
Corpus_Deduplicated(rows) ==
    LET first == SelectSeq([i \in DOMAIN rows |-> i],
                           LAMBDA i : \A j \in 1..(i - 1) : rows[j][1] # rows[i][1])
    IN  [k \in DOMAIN first |-> rows[first[k]][1]]

Corpus(rows) == [i \in DOMAIN rows |-> rows[i][1]]

\* a NaN among the documents makes fit_transform raise, a NaN among the
\* labels given to fit makes fit raise
HasNaNDocument(docs) == \E i \in DOMAIN docs : docs[i] = <<>>
HasNaNLabel(labels) == "" \in labels

Vocabulary(docs) == UNION {Range(Tokenize(docs[i])) : i \in DOMAIN docs}

DocFreq(docs, t) == Cardinality({i \in DOMAIN docs : t \in Range(Tokenize(docs[i]))})

TermCount(t, toks) == Cardinality({k \in DOMAIN toks : toks[k] = t})

\* vectorizer.fit_transform(X): the fitted extractor (run and data identify
\* the object: which training run built it, from which file contents)
FitVectorizer(docs, run, data) ==
    [kind |-> "vectorizer",
     vocab |-> Vocabulary(docs),
     df |-> [t \in Vocabulary(docs) |-> DocFreq(docs, t)],
     n_docs |-> Len(docs),
     run |-> run,
     data |-> data]

\* a transform that gives every term of the description a column
Transform_GrowsWithUnknownTerms(vz, d) ==
    [t \in vz.vocab \cup Range(Tokenize(d)) |-> TermCount(t, Tokenize(d))]

\* vectorizer.transform([description]): one weight per fitted term.  The
\* weight is the term count scaled by the (positive) idf and row norm, so
\* it is zero exactly when the count is; the count stands for it.
Transform(vz, d) == [t \in vz.vocab |-> TermCount(t, Tokenize(d))]

----------------------------------------------------------------------------
(* train_test_split(X_vec, y, test_size=0.2, random_state=42)              *)

NTest(n) == (n + 4) \div 5
NTrain(n) == (4 * n) \div 5

\* sizes for which the split does not raise
SplitSizes == {n \in {Len(Datasets[i]) : i \in DatasetIds} : NTrain(n) > 0}

\* the shuffles a fixed seed can stand for: one held-out set per size
Shuffles ==
    {f \in [SplitSizes -> SUBSET (UNION {1..n : n \in SplitSizes})] :
        \A n \in SplitSizes : f[n] \subseteq 1..n /\ Cardinality(f[n]) = NTest(n)}

\* a fit that is given every row, the held-out ones included
TrainRows_All(n) == 1..n

TrainRows(n) == (1..n) \ split42[n]

----------------------------------------------------------------------------
(* RandomForestClassifier(): fit and predict.  No random_state is passed,  *)
(* so the bootstrap samples come from the unseeded global generator: seed  *)
(* is that generator's state when fit runs.                                *)

Seeds == 0..MaxSeed

SortedClasses(S) == SelectSeq(LabelOrder, LAMBDA l : l \in S)

FitClassifier(labels, n_features, seed, run, data) ==
    [kind |-> "model",
     classes |-> labels,
     n_features |-> n_features,
     seed |-> seed,
     run |-> run,
     data |-> data]

\* the terms of a vector with non-zero weight
Support(v) == {t \in DOMAIN v : v[t] > 0}

\* a predict that abstains on a vector without any known term
Predict_OthersWhenUnknown(m, v) ==
    IF Cardinality(DOMAIN v) # m.n_features
    THEN [error |-> "ValueError", label |-> ""]
    ELSE IF {t \in DOMAIN v : v[t] > 0} = {}
    THEN [error |-> "", label |-> "Others"]
    ELSE [error |-> "",
          label |-> SortedClasses(m.classes)[
                        ((m.seed + Cardinality({t \in DOMAIN v : v[t] > 0}))
                            % Cardinality(m.classes)) + 1]]

\* a classifier that abstains on a vector without any known term
Predict_AbstainsWhenUnknown(m, v) ==
    IF Cardinality(DOMAIN v) # m.n_features
    THEN [error |-> "ValueError", label |-> ""]
    ELSE IF Support(v) = {}
    THEN [error |-> "", label |-> ""]
    ELSE [error |-> "",
          label |-> SortedClasses(m.classes)[
                        ((m.seed + Cardinality(Support(v))) % Cardinality(m.classes)) + 1]]

\* model.predict(description_vec)[0]: the majority class of the forest, one
\* of classes_; which one depends on the vector and on the trees grown.
\* A vector of another width than the one fitted raises ValueError.
Predict(m, v) ==
    IF Cardinality(DOMAIN v) # m.n_features
    THEN [error |-> "ValueError", label |-> ""]
    ELSE [error |-> "",
          label |-> SortedClasses(m.classes)[
                        ((m.seed + Cardinality(Support(v))) % Cardinality(m.classes)) + 1]]

\* the form's prediction: predicted_category = "" unless `if description:`
predict_category(vz, m, d) ==
    IF Len(d) = 0
    THEN [invoked |-> FALSE, error |-> "", label |-> ""]
    ELSE LET r == Predict(m, Transform(vz, d))
         IN  [invoked |-> TRUE, error |-> r.error, label |-> r.label]

----------------------------------------------------------------------------
(* The estimator objects and what their methods raise                      *)

\* TfidfVectorizer(), RandomForestClassifier(): objects without fitted
\* attributes
TfidfVectorizer == [kind |-> "vectorizer"]
RandomForestClassifier == [kind |-> "model"]

\* check_is_fitted: the attribute fit() sets is there
IsFitted(obj) ==
    IF obj.kind = "vectorizer" THEN "vocab" \in DOMAIN obj ELSE "classes" \in DOMAIN obj

\* a fit_transform that accepts a corpus without any term
vectorizer_fit_transform_AcceptsEmpty(vz, docs, run, data) ==
    [error |-> "", vectorizer |-> FitVectorizer(docs, run, data)]

\* vectorizer.fit_transform(X): raises "empty vocabulary" before it sets
\* vocabulary_ when no document has a term
vectorizer_fit_transform(vz, docs, run, data) ==
    IF HasNaNDocument(docs) \/ Vocabulary(docs) = {}
    THEN [error |-> "ValueError", vectorizer |-> vz]
    ELSE [error |-> "", vectorizer |-> FitVectorizer(docs, run, data)]

\* vectorizer.transform([description])
vectorizer_transform(vz, d) ==
    IF ~IsFitted(vz)
    THEN [error |-> "NotFittedError", vec |-> <<>>]
    ELSE [error |-> "", vec |-> Transform(vz, d)]

\* a predict without validation: some label comes back whatever it is given
model_predict_Unvalidated(m, v) ==
    IF ~IsFitted(m) \/ Cardinality(DOMAIN v) # m.n_features
    THEN [error |-> "", label |-> "Others"]
    ELSE Predict(m, v)

\* model.predict(description_vec)[0]
model_predict(m, v) ==
    IF ~IsFitted(m)
    THEN [error |-> "NotFittedError", label |-> ""]
    ELSE Predict(m, v)

----------------------------------------------------------------------------
(* State *)

\* artifact: whether both files were loadable when the script run reached
\* its load_and_train_model() call
NoView == [page |-> "none", desc |-> <<>>, outcome |-> "none", error |-> "",
           invoked |-> FALSE, predicted |-> "", artifact |-> FALSE,
           options |-> <<>>, submitted |-> "", selected |-> ""]

\* while a cached function computes, the page shows its spinner
Running(p) == [NoView EXCEPT !.page = p, !.outcome = "running"]

\* an uncaught exception ends the script run: Streamlit shows the traceback
\* and nothing the script would have drawn after the raising line
Crashed(p, d, e, inv) ==
    [page |-> p, desc |-> d, outcome |-> "crashed", error |-> e,
     invoked |-> inv, predicted |-> "", artifact |-> FALSE,
     options |-> <<>>, submitted |-> "", selected |-> ""]

\* the options of the Category selectbox, the first one preselected
CategoryOptions(predicted_category) == <<predicted_category>> \o Fallback

\* the page drew its Add Expense form
Form(p, d, r) ==
    [page |-> p, desc |-> d, outcome |-> "form", error |-> "",
     invoked |-> r.invoked, predicted |-> r.label, artifact |-> FALSE,
     options |-> CategoryOptions(r.label), submitted |-> "", selected |-> ""]

\* a dump that keeps the constructor parameters only, not what fit() grew
Pickle_WithoutFittedTrees(obj) ==
    [kind |-> "pickle",
     class |-> obj.kind,
     state |-> [f \in (DOMAIN obj) \ {"kind"} |->
                   IF f = "seed" THEN 0 ELSE obj[f]]]

\* joblib.dump(obj, path): the file holds the pickle of obj, its class and
\* its attribute dictionary
Pickle(obj) ==
    [kind |-> "pickle",
     class |-> obj.kind,
     state |-> [f \in (DOMAIN obj) \ {"kind"} |-> obj[f]]]

\* joblib.load(path): a new object of the pickled class with the pickled
\* attributes
Unpickle(file) ==
    [f \in (DOMAIN file.state) \cup {"kind"} |->
        IF f = "kind" THEN file.class ELSE file.state[f]]

\* joblib.load succeeds on a file that exists
Loadable(file, kind) == file.kind = "pickle" /\ file.class = kind

ArtifactLoadable == Loadable(vecFile, "vectorizer") /\ Loadable(modelFile, "model")

\* what the body of load_and_train_model raises before its first dump
TrainError(i) ==
    IF i = FileMissing THEN "FileNotFoundError"
    ELSE IF HasNaNDocument(Corpus(Datasets[i])) THEN "ValueError"
    ELSE IF Vocabulary(Corpus(Datasets[i])) = {} THEN "ValueError"
    ELSE IF NTrain(Len(Datasets[i])) = 0 THEN "ValueError"
    ELSE IF HasNaNLabel({Datasets[i][k][2] : k \in TrainRows(Len(Datasets[i]))})
    THEN "ValueError"
    ELSE ""

\* the (vectorizer, model) the body fits from file contents i
Fitted(i, seed, run) ==
    LET rows == Datasets[i]
        vz == FitVectorizer(Corpus(rows), run, i)
    IN  [vectorizer |-> vz,
         model |-> FitClassifier({rows[k][2] : k \in TrainRows(Len(rows))},
                                 Cardinality(vz.vocab), seed, run, i)]

\* a key that is not in st.session_state, and Python's None
Absent == "<absent>"
PyNone == "<None>"

\* if value: of a session entry
Truthy(value) == value \notin {Absent, PyNone, ""}

\* a gate that looks for the key only
PassesGate_KeyOnly(s) == s.user # Absent

\* the gate at the top of a page under pages/: the script goes on
PassesGate(s) == s.user \notin {Absent, PyNone}

\* users rows; username is the PRIMARY KEY
Ann == [name |-> "Ann", username |-> "ann", email |-> "ann@x", password |-> "p1"]
Bob == [name |-> "Bob", username |-> "bob", email |-> "bob@x", password |-> "p2"]

\* a browser session that has opened no page yet
NoSession == [user |-> Absent, username |-> Absent, email |-> Absent,
              reset_code |-> Absent, reset_username |-> Absent]

\* the session after login_user found the row
SessionOf(row) == [NoSession EXCEPT !.user = row.name, !.username = row.username]

NoCall == [kind |-> "none", pc |-> "none"]

AppInit ==
    /\ session = NoSession
    /\ users = {}
    /\ goals = <<>>
    /\ stock_purchases = <<>>
    /\ call = NoCall

\* the categorisation is followed in a session that is logged in
Init ==
    /\ session = SessionOf(Ann)
    /\ users = {Ann}
    /\ goals = <<>>
    /\ stock_purchases = <<>>
    /\ call = NoCall
    /\ split42 \in Shuffles
    /\ cache = [p \in Pages |-> None]
    /\ pc = [p \in Pages |-> "idle"]
    /\ local = [p \in Pages |-> None]
    /\ vecFile = None
    /\ modelFile = None
    /\ runs = 0
    /\ view = NoView
    /\ expenses = <<>>

\* the variables of the categorisation, which the pages below leave alone
model == <<split42, cache, pc, local, vecFile, modelFile, runs>>

\* nothing trained, no artifact
ModelIdle ==
    /\ split42 = CHOOSE f \in Shuffles : TRUE
    /\ cache = [p \in Pages |-> None]
    /\ pc = [p \in Pages |-> "idle"]
    /\ local = [p \in Pages |-> None]
    /\ vecFile = None
    /\ modelFile = None
    /\ runs = 0

----------------------------------------------------------------------------
(* Actions *)

\* a load_and_train_model without st.cache_resource: every call fits again
Train_IgnoresCache(p, csv) ==
    /\ pc[p] = "idle"
    /\ runs < MaxRuns
    /\ LET e == TrainError(csv)
       IN  IF e # ""
           THEN /\ view' = Crashed(p, <<>>, e, FALSE)
                /\ UNCHANGED <<pc, local, runs>>
           ELSE /\ \E seed \in Seeds :
                      local' = [local EXCEPT ![p] = Fitted(csv, seed, runs + 1)]
                /\ pc' = [pc EXCEPT ![p] = "fitted"]
                /\ runs' = runs + 1
                /\ view' = [Running(p) EXCEPT !.artifact = ArtifactLoadable]
    /\ UNCHANGED <<split42, cache, vecFile, modelFile, expenses>>
    /\ UNCHANGED app

\* a load_and_train_model that returns the persisted pair when there is one
Train_LoadsArtifactFirst(p, csv) ==
    /\ cache[p] = None
    /\ pc[p] = "idle"
    /\ runs < MaxRuns
    /\ IF ArtifactLoadable
       THEN /\ cache' = [cache EXCEPT ![p] = [vectorizer |-> Unpickle(vecFile),
                                               model |-> Unpickle(modelFile)]]
            /\ view' = [Running(p) EXCEPT !.artifact = TRUE]
            /\ UNCHANGED <<pc, local, runs>>
       ELSE /\ IF TrainError(csv) # ""
               THEN /\ view' = Crashed(p, <<>>, TrainError(csv), FALSE)
                    /\ UNCHANGED <<pc, local, runs>>
               ELSE \E seed \in Seeds :
                    /\ local' = [local EXCEPT ![p] = Fitted(csv, seed, runs + 1)]
                    /\ pc' = [pc EXCEPT ![p] = "fitted"]
                    /\ runs' = runs + 1
                    /\ view' = Running(p)
            /\ UNCHANGED cache
    /\ UNCHANGED <<split42, vecFile, modelFile, expenses>>
    /\ UNCHANGED app

\* load_and_train_model() on a cache miss, up to the fitted model: read the
\* file (csv: its contents at that moment, an index in Datasets or
\* FileMissing), fit the vectorizer, split, fit the forest
Train(p, csv) ==
    /\ cache[p] = None
    /\ pc[p] = "idle"
    /\ runs < MaxRuns
    /\ IF TrainError(csv) # ""
       THEN /\ view' = Crashed(p, <<>>, TrainError(csv), FALSE)
            /\ UNCHANGED <<pc, local, runs>>
       ELSE \E seed \in Seeds :
            /\ local' = [local EXCEPT ![p] = Fitted(csv, seed, runs + 1)]
            /\ pc' = [pc EXCEPT ![p] = "fitted"]
            /\ runs' = runs + 1
            /\ view' = [Running(p) EXCEPT !.artifact = ArtifactLoadable]
    /\ UNCHANGED <<split42, cache, vecFile, modelFile, expenses>>
    /\ UNCHANGED app

\* joblib.dump(vectorizer, "vectorizer.pkl"); a refused write (read-only
\* file system) raises and leaves the file as it was
DumpVectorizer(p) ==
    /\ pc[p] = "fitted"
    /\ \/ /\ vecFile' = Pickle(local[p].vectorizer)
          /\ pc' = [pc EXCEPT ![p] = "dumpedVectorizer"]
          /\ view' = Running(p)
          /\ UNCHANGED local
       \/ /\ vecFile' = vecFile
          /\ pc' = [pc EXCEPT ![p] = "idle"]
          /\ local' = [local EXCEPT ![p] = None]
          /\ view' = Crashed(p, <<>>, "OSError", FALSE)
    /\ UNCHANGED <<split42, cache, modelFile, runs, expenses>>
    /\ UNCHANGED app

\* a decorator that stores the pair also when the body raised
DumpModel_MemoizesFailure(p) ==
    /\ pc[p] = "dumpedVectorizer"
    /\ \/ /\ modelFile' = Pickle(local[p].model)
          /\ view' = Running(p)
       \/ /\ modelFile' = modelFile
          /\ view' = Crashed(p, <<>>, "OSError", FALSE)
    /\ cache' = [cache EXCEPT ![p] = local[p]]
    /\ pc' = [pc EXCEPT ![p] = "idle"]
    /\ local' = [local EXCEPT ![p] = None]
    /\ UNCHANGED <<split42, vecFile, runs, expenses>>
    /\ UNCHANGED app

\* joblib.dump(model, "model.pkl"); return vectorizer, model: the decorator
\* stores the returned pair
DumpModel(p) ==
    /\ pc[p] = "dumpedVectorizer"
    /\ \/ /\ modelFile' = Pickle(local[p].model)
          /\ cache' = [cache EXCEPT ![p] = local[p]]
          /\ view' = Running(p)
       \/ /\ modelFile' = modelFile
          /\ view' = Crashed(p, <<>>, "OSError", FALSE)
          /\ UNCHANGED cache
    /\ pc' = [pc EXCEPT ![p] = "idle"]
    /\ local' = [local EXCEPT ![p] = None]
    /\ UNCHANGED <<split42, vecFile, runs, expenses>>
    /\ UNCHANGED app

\* a form that dumps the classifier again after predicting
Render_PersistsAfterPredict(p, d) ==
    /\ cache[p] # None
    /\ LET r == predict_category(cache[p].vectorizer, cache[p].model, d)
       IN  view' = IF r.error # ""
                   THEN Crashed(p, d, r.error, r.invoked)
                   ELSE Form(p, d, r)
    /\ modelFile' = Pickle(cache[p].model)
    /\ UNCHANGED <<split42, cache, pc, local, vecFile, runs, expenses>>
    /\ UNCHANGED app

\* a form that calls fit_transform on the description instead of transform
Render_LearnsTerms(p, d) ==
    /\ cache[p] # None
    /\ LET r == predict_category(cache[p].vectorizer, cache[p].model, d)
       IN  view' = IF r.error # ""
                   THEN Crashed(p, d, r.error, r.invoked)
                   ELSE Form(p, d, r)
    /\ cache' = [cache EXCEPT ![p].vectorizer.vocab = @ \cup Range(Tokenize(d))]
    /\ UNCHANGED <<split42, pc, local, vecFile, modelFile, runs, expenses>>
    /\ UNCHANGED app

\* a script run of a page whose load_and_train_model() is a cache hit: the
\* Add Expense form with description d typed in
Render(p, d) ==
    /\ cache[p] # None
    /\ LET r == predict_category(cache[p].vectorizer, cache[p].model, d)
       IN  view' = IF r.error # ""
                   THEN Crashed(p, d, r.error, r.invoked)
                   ELSE Form(p, d, r)
    /\ UNCHANGED <<split42, cache, pc, local, vecFile, modelFile, runs, expenses>>
    /\ UNCHANGED app

\* the user fills the Add Expense form that is on screen (description d,
\* an amount, the choice-th entry of the selectbox) and presses Add Expense.
\* Widgets inside st.form reach the script only with the submit, so the run
\* that drew the form did not see d.  Streamlit identifies a selectbox by
\* its arguments: with another options list it is a new widget and returns
\* its index=0 entry, not the entry chosen on screen.
Submit(p, d, amount, choice) ==
    /\ Truthy(session.user)
    /\ cache[p] # None
    /\ view.page = p /\ view.outcome = "form"
    /\ choice \in 1..Len(view.options)
    /\ Len(expenses) < MaxExpenses
    /\ LET r == predict_category(cache[p].vectorizer, cache[p].model, d)
           options == CategoryOptions(r.label)
           category == IF options = view.options THEN options[choice] ELSE options[1]
           shown(result) == [Form(p, d, r) EXCEPT !.submitted = result,
                                                  !.selected = view.options[choice]]
       IN  IF r.error # ""
           THEN /\ view' = Crashed(p, d, r.error, r.invoked)
                /\ UNCHANGED expenses
           ELSE IF amount = 0 \/ Len(d) = 0
           THEN /\ view' = shown("required")
                /\ UNCHANGED expenses
           ELSE IF amount > DEFAULT_EXPENSE_LIMIT
           THEN /\ view' = shown("limit")
                /\ UNCHANGED expenses
           ELSE \/ /\ expenses' = Append(expenses, [owner |-> session.username,
                                                    amount |-> amount,
                                                    category |-> category,
                                                    description |-> d])
                   /\ view' = shown("saved")
                \/ /\ view' = shown("sqlite3.Error")
                   /\ UNCHANGED expenses
    /\ UNCHANGED <<split42, cache, pc, local, vecFile, modelFile, runs>>
    /\ UNCHANGED app

\* a script run of pages/Expense.py: joblib.load of both files at module
\* level, then its Add Expense form with description d typed in
ExpenseRender(d) ==
    /\ IF ~Loadable(vecFile, "vectorizer")
       THEN view' = Crashed("Expense", <<>>, "FileNotFoundError", FALSE)
       ELSE IF ~Loadable(modelFile, "model")
       THEN view' = Crashed("Expense", <<>>, "FileNotFoundError", FALSE)
       ELSE LET r == predict_category(Unpickle(vecFile), Unpickle(modelFile), d)
            IN  view' = IF r.error # ""
                        THEN Crashed("Expense", d, r.error, r.invoked)
                        ELSE Form("Expense", d, r)
    /\ UNCHANGED <<split42, cache, pc, local, vecFile, modelFile, runs, expenses>>
    /\ UNCHANGED app

\* the server process ends (also in the middle of a training) and a new one
\* starts: the files stay, everything in memory is gone
Restart ==
    /\ cache' = [p \in Pages |-> None]
    /\ pc' = [p \in Pages |-> "idle"]
    /\ local' = [p \in Pages |-> None]
    /\ view' = [NoView EXCEPT !.outcome = "restarted"]
    /\ UNCHANGED <<split42, vecFile, modelFile, runs, expenses>>
    /\ UNCHANGED app

Next ==
    \/ \E p \in Pages, csv \in {FileMissing} \cup DatasetIds : Train(p, csv)
    \/ \E p \in Pages : DumpVectorizer(p)
    \/ \E p \in Pages : DumpModel(p)
    \/ \E p \in Pages, d \in Descriptions : Render(p, d)
    \/ \E d \in Descriptions : ExpenseRender(d)
    \/ Restart

Spec == Init /\ [][Next]_vars

\* one session on Home.py: training, then the Add Expense form
NextForm ==
    \/ \E csv \in {FileMissing} \cup DatasetIds : Train("Home", csv)
    \/ DumpVectorizer("Home")
    \/ DumpModel("Home")
    \/ \E d \in Descriptions : Render("Home", d)
    \/ \E d \in Descriptions, amount \in Amounts, choice \in 1..(Len(Fallback) + 1) :
          Submit("Home", d, amount, choice)

SpecForm == Init /\ [][NextForm]_vars

----------------------------------------------------------------------------
(* The estimator methods applied to objects in any state of fitting: one   *)
(* frame holding a vectorizer and a model, as the locals of                *)
(* load_and_train_model, with the methods called in any order.             *)

\* what a method call gave: page names the method
Called(method, d, r) ==
    [NoView EXCEPT !.page = method, !.desc = d,
                   !.outcome = IF r.error # "" THEN "crashed" ELSE "returned",
                   !.error = r.error, !.invoked = TRUE]

InitLib ==
    /\ AppInit
    /\ split42 \in Shuffles
    /\ cache = [p \in Pages |-> None]
    /\ pc = [p \in Pages |-> "idle"]
    /\ local = [p \in Pages |->
                  IF p = "Home"
                  THEN [vectorizer |-> TfidfVectorizer, model |-> RandomForestClassifier]
                  ELSE None]
    /\ vecFile = None
    /\ modelFile = None
    /\ runs = 0
    /\ view = NoView
    /\ expenses = <<>>

\* X_vec = vectorizer.fit_transform(X) on the descriptions of dataset i
LibFitTransform(i) ==
    /\ runs < MaxRuns
    /\ LET r == vectorizer_fit_transform(local["Home"].vectorizer,
                                         Corpus(Datasets[i]), runs + 1, i)
       IN  /\ local' = [local EXCEPT !["Home"].vectorizer = r.vectorizer]
           /\ view' = Called("fit_transform", <<>>, r)
    /\ runs' = runs + 1
    /\ UNCHANGED <<split42, cache, pc, vecFile, modelFile, expenses>>
    /\ UNCHANGED app

\* train_test_split, then model.fit(X_train, y_train) on the rows of the
\* fitted vectorizer
LibFit(seed) ==
    /\ IsFitted(local["Home"].vectorizer)
    /\ LET vz == local["Home"].vectorizer
       IN  IF \/ NTrain(Len(Datasets[vz.data])) = 0
              \/ HasNaNLabel({Datasets[vz.data][k][2] :
                                k \in TrainRows(Len(Datasets[vz.data]))})
           THEN /\ view' = Called("fit", <<>>, [error |-> "ValueError"])
                /\ UNCHANGED local
           ELSE /\ local' = [local EXCEPT
                                !["Home"].model = Fitted(vz.data, seed, vz.run).model]
                /\ view' = Called("fit", <<>>, [error |-> ""])
    /\ UNCHANGED <<split42, cache, pc, vecFile, modelFile, runs, expenses>>
    /\ UNCHANGED app

\* description_vec = vectorizer.transform([description])
LibTransform(d) ==
    /\ view' = Called("transform", d, vectorizer_transform(local["Home"].vectorizer, d))
    /\ UNCHANGED <<split42, cache, pc, local, vecFile, modelFile, runs, expenses>>
    /\ UNCHANGED app

\* model.predict(description_vec)[0] on the vector of a fitted vectorizer
LibPredict(d) ==
    /\ IsFitted(local["Home"].vectorizer)
    /\ LET r == model_predict(local["Home"].model,
                              Transform(local["Home"].vectorizer, d))
       IN  view' = [Called("predict", d, r) EXCEPT !.predicted = r.label]
    /\ UNCHANGED <<split42, cache, pc, local, vecFile, modelFile, runs, expenses>>
    /\ UNCHANGED app

NextLib ==
    \/ \E i \in DatasetIds : LibFitTransform(i)
    \/ \E seed \in Seeds : LibFit(seed)
    \/ \E d \in Descriptions : LibTransform(d)
    \/ \E d \in Descriptions : LibPredict(d)

SpecLib == InitLib /\ [][NextLib]_vars

----------------------------------------------------------------------------
(* Home.py: the Add Expense and Edit an Expense forms of one logged-in     *)
(* session, the pipeline of the page being Ready                           *)

\* the Edit an Expense form is submitted for the row with id k: the three
\* fields are written as entered, nothing is validated
EditExpense(k, amount, category, d) ==
    /\ Truthy(session.user)
    /\ cache["Home"] # None
    /\ k \in DOMAIN expenses /\ expenses[k].owner = session.username
    /\ \/ /\ expenses' = [expenses EXCEPT ![k] = [@ EXCEPT !.amount = amount,
                                                           !.category = category,
                                                           !.description = d]]
          /\ view' = [NoView EXCEPT !.page = "Home", !.outcome = "rerun",
                                    !.submitted = "updated"]
       \/ /\ view' = [NoView EXCEPT !.page = "Home", !.outcome = "edit",
                                    !.submitted = "sqlite3.Error"]
          /\ UNCHANGED expenses
    /\ UNCHANGED <<model, session, users, goals, stock_purchases, call>>

\* Home.py after a training that succeeded, the user logged in
InitExpenses ==
    /\ split42 = CHOOSE f \in Shuffles : TRUE
    /\ cache = [p \in Pages |-> IF p = "Home" THEN Fitted(3, 0, 1) ELSE None]
    /\ pc = [p \in Pages |-> "idle"]
    /\ local = [p \in Pages |-> None]
    /\ vecFile = Pickle(Fitted(3, 0, 1).vectorizer)
    /\ modelFile = Pickle(Fitted(3, 0, 1).model)
    /\ runs = 1
    /\ view = NoView
    /\ expenses = <<>>
    /\ session = SessionOf(Ann)
    /\ users = {Ann}
    /\ goals = <<>>
    /\ stock_purchases = <<>>
    /\ call = NoCall

NextExpenses ==
    \/ \E d \in Descriptions : Render("Home", d)
    \/ \E d \in Descriptions, amount \in Amounts, choice \in 1..(Len(Fallback) + 1) :
          Submit("Home", d, amount, choice)
    \/ \E k \in 1..MaxExpenses, amount \in Amounts, category \in {"", "Food"},
          d \in Descriptions :
          EditExpense(k, amount, category, d)

SpecExpenses == InitExpenses /\ [][NextExpenses]_vars

----------------------------------------------------------------------------
(* pages/Goals.py                                                          *)

MaxGoals == 2

\* the values typed into the two number_input widgets (min_value=0.0)
GoalAmounts == 0..2

\* str.strip() of a description
RECURSIVE LStrip(_)
LStrip(d) == IF d # <<>> /\ Head(d) = " " THEN LStrip(Tail(d)) ELSE d

RECURSIVE RStrip(_)
RStrip(d) ==
    IF d # <<>> /\ d[Len(d)] = " " THEN RStrip(SubSeq(d, 1, Len(d) - 1)) ELSE d

Strip(d) == RStrip(LStrip(d))

\* what a script run of a page under pages/ showed
PageView(page, outcome) == [NoView EXCEPT !.page = page, !.outcome = outcome]

\* an Update form that takes any amount
UpdateSaved_Unbounded(id, new_saved_amount) ==
    /\ IF ~PassesGate(session)
       THEN /\ view' = PageView("Goals", "stopped")
            /\ UNCHANGED goals
       ELSE /\ id \in DOMAIN goals /\ goals[id].owner = session.username
            /\ \/ /\ goals' = [goals EXCEPT ![id].saved_amount = new_saved_amount]
                  /\ view' = PageView("Goals", "updated")
               \/ /\ view' = PageView("Goals", "error")
                  /\ UNCHANGED goals
    /\ UNCHANGED <<model, expenses, session, users, stock_purchases, call>>

\* View Goals, the Update form submitted for the goal with this id.  The
\* number_input accepts values from min_value=0.0 to max_value=the goal
\* amount of the selected goal.
UpdateSaved(id, new_saved_amount) ==
    /\ IF ~PassesGate(session)
       THEN /\ view' = PageView("Goals", "stopped")
            /\ UNCHANGED goals
       ELSE /\ id \in DOMAIN goals /\ goals[id].owner = session.username
            /\ new_saved_amount >= 0 /\ new_saved_amount <= goals[id].goal_amount
            /\ \/ /\ goals' = [goals EXCEPT ![id].saved_amount = new_saved_amount]
                  /\ view' = PageView("Goals", "updated")
               \/ /\ view' = PageView("Goals", "error")
                  /\ UNCHANGED goals
    /\ UNCHANGED <<model, expenses, session, users, stock_purchases, call>>

\* Set New Goal, the form submitted; saved_amount takes its DEFAULT 0.0
SetGoal(goal_amount, goal_description) ==
    /\ IF ~PassesGate(session)
       THEN /\ view' = PageView("Goals", "stopped")
            /\ UNCHANGED goals
       ELSE IF goal_amount <= 0 \/ Strip(goal_description) = <<>>
       THEN /\ view' = PageView("Goals", "rejected")
            /\ UNCHANGED goals
       ELSE \/ /\ Len(goals) < MaxGoals
               /\ goals' = Append(goals, [owner |-> session.username,
                                          goal_amount |-> goal_amount,
                                          saved_amount |-> 0,
                                          description |-> goal_description])
               /\ view' = PageView("Goals", "saved")
            \/ /\ view' = PageView("Goals", "error")
               /\ UNCHANGED goals
    /\ UNCHANGED <<model, expenses, session, users, stock_purchases, call>>

InitGoals ==
    /\ ModelIdle
    /\ view = NoView
    /\ expenses = <<>>
    /\ session = SessionOf(Ann)
    /\ users = {Ann}
    /\ goals = <<>>
    /\ stock_purchases = <<>>
    /\ call = NoCall

NextGoals ==
    \/ \E a \in GoalAmounts, d \in Descriptions : SetGoal(a, d)
    \/ \E id \in 1..MaxGoals, a \in GoalAmounts : UpdateSaved(id, a)

SpecGoals == InitGoals /\ [][NextGoals]_vars

----------------------------------------------------------------------------
(* Main/pages/Finances.py: add_stock_purchase                              *)

MaxPurchases == 2

StockSymbols == {"", "TCS"}
Quantities == 1..2
StockPrices == {0, 3}
Days == 1..2

StockName(stock_symbol) == IF stock_symbol = "" THEN "" ELSE "Tata Consultancy"

\* the expense row of a purchase
StockExpense(purchase) ==
    [owner |-> purchase.owner, date |-> purchase.purchase_date,
     amount |-> purchase.quantity * purchase.purchase_price,
     category |-> "Stocks", description |-> purchase.stock_name]

\* Add Purchase clicked: the page up to the first commit of
\* add_stock_purchase, the INSERT INTO stock_purchases
AddPurchase(stock_symbol, quantity, stock_price, today) ==
    /\ call.pc \in {"none", "returned", "raised"}
    /\ IF ~PassesGate(session)
       THEN /\ view' = PageView("Finances", "stopped")
            /\ UNCHANGED <<stock_purchases, call>>
       ELSE IF ~(stock_symbol # "" /\ quantity > 0)
       THEN /\ view' = PageView("Finances", "rejected")
            /\ UNCHANGED <<stock_purchases, call>>
       ELSE \/ /\ Len(stock_purchases) < MaxPurchases
               /\ stock_purchases' =
                      Append(stock_purchases,
                             [owner |-> session.username,
                              stock_symbol |-> stock_symbol,
                              stock_name |-> StockName(stock_symbol),
                              purchase_date |-> today,
                              quantity |-> quantity,
                              purchase_price |-> stock_price])
               /\ call' = [kind |-> "add_stock_purchase", pc |-> "committed"]
               /\ view' = PageView("Finances", "running")
            \/ /\ call' = [kind |-> "add_stock_purchase", pc |-> "raised"]
               /\ view' = PageView("Finances", "sqlite3.Error")
               /\ UNCHANGED stock_purchases
    /\ UNCHANGED <<model, expenses, session, users, goals>>

\* the rest of add_stock_purchase after the first commit: the INSERT INTO
\* expenses and its commit, or the exception of either
AddExpense ==
    /\ call = [kind |-> "add_stock_purchase", pc |-> "committed"]
    /\ \/ /\ expenses' = Append(expenses,
                                StockExpense(stock_purchases[Len(stock_purchases)]))
          /\ call' = [call EXCEPT !.pc = "returned"]
          /\ view' = PageView("Finances", "saved")
       \/ /\ call' = [call EXCEPT !.pc = "raised"]
          /\ view' = PageView("Finances", "sqlite3.Error")
          /\ UNCHANGED expenses
    /\ UNCHANGED <<model, session, users, goals, stock_purchases>>

InitStocks ==
    /\ ModelIdle
    /\ view = NoView
    /\ expenses = <<>>
    /\ session = SessionOf(Ann)
    /\ users = {Ann}
    /\ goals = <<>>
    /\ stock_purchases = <<>>
    /\ call = NoCall

NextStocks ==
    \/ \E stock_symbol \in StockSymbols, quantity \in Quantities,
          stock_price \in StockPrices, today \in Days :
           AddPurchase(stock_symbol, quantity, stock_price, today)
    \/ AddExpense

SpecStocks == InitStocks /\ [][NextStocks]_vars

----------------------------------------------------------------------------
(* pages/Profile.py: execute_with_retry, here running the UPDATE of        *)
(* update_user                                                             *)

UserTables == {{}, {Ann}, {Ann, Bob}}

Usernames == {"ann", "bob"}
Passwords == {"p1", "p2"}

\* range(5)
MaxAttempts == 5

\* messages of the sqlite3.OperationalError an attempt can raise
OperationalErrors == {"database is locked", "database table is locked",
                      "no such table: users", "disk I/O error"}

\* "locked" in str(e).lower()
ContainsLocked(msg) == msg \in {"database is locked", "database table is locked"}

\* UPDATE users SET name, username, email, password WHERE username = old:
\* the table after it, or the IntegrityError of the primary key
UpdateUsers(table, q) ==
    LET hit == {r \in table : r.username = q.old_username}
        rest == table \ hit
        row == [name |-> q.name, username |-> q.username,
                email |-> q.email, password |-> q.password]
    IN  IF hit # {} /\ \E r \in rest : r.username = q.username
        THEN [error |-> "IntegrityError", table |-> table]
        ELSE [error |-> "", table |-> IF hit = {} THEN table ELSE rest \cup {row}]

\* the parameter tuples of the UPDATE
UpdateQueries ==
    [name : {"Ann", ""}, username : Usernames, email : {"ann@x"},
     password : Passwords, old_username : Usernames]

InitRetry ==
    /\ ModelIdle
    /\ view = NoView
    /\ expenses = <<>>
    /\ session = NoSession
    /\ users \in UserTables
    /\ goals = <<>>
    /\ stock_purchases = <<>>
    /\ call = NoCall

\* execute_with_retry(conn, query, params) is called
ExecuteWithRetry(q) ==
    /\ call.pc \in {"none", "returned", "raised"}
    /\ call' = [kind |-> "execute_with_retry", query |-> q, attempt |-> 0,
                pc |-> "try", last |-> "", error |-> ""]
    /\ UNCHANGED <<model, view, expenses, session, users, goals, stock_purchases>>

\* an attempt that treats every OperationalError as a lock
Attempt_RetriesAnyError(outcome) ==
    /\ call.kind = "execute_with_retry" /\ call.pc = "try"
    /\ IF outcome = "ok"
       THEN LET r == UpdateUsers(users, call.query)
            IN  /\ users' = r.table
                /\ call' = [call EXCEPT !.attempt = @ + 1, !.last = outcome,
                                        !.pc = IF r.error = "" THEN "returned" ELSE "raised",
                                        !.error = r.error]
       ELSE /\ call' = [call EXCEPT !.attempt = @ + 1, !.last = outcome, !.pc = "sleep"]
            /\ UNCHANGED users
    /\ UNCHANGED <<model, view, expenses, session, goals, stock_purchases>>

\* one pass of the loop body: cur.execute, conn.commit and return, or the
\* except clause.  An exception that is no OperationalError leaves the
\* function at once.
Attempt(outcome) ==
    /\ call.kind = "execute_with_retry" /\ call.pc = "try"
    /\ IF outcome = "ok"
       THEN LET r == UpdateUsers(users, call.query)
            IN  /\ users' = r.table
                /\ call' = [call EXCEPT !.attempt = @ + 1, !.last = outcome,
                                        !.pc = IF r.error = "" THEN "returned" ELSE "raised",
                                        !.error = r.error]
       ELSE /\ call' = [call EXCEPT !.attempt = @ + 1, !.last = outcome,
                                    !.pc = IF ContainsLocked(outcome) THEN "sleep" ELSE "raised",
                                    !.error = IF ContainsLocked(outcome) THEN "" ELSE outcome]
            /\ UNCHANGED users
    /\ UNCHANGED <<model, view, expenses, session, goals, stock_purchases>>

\* time.sleep(0.1) returns: the next pass, or after the last pass the raise
\* below the loop
Sleep ==
    /\ call.kind = "execute_with_retry" /\ call.pc = "sleep"
    /\ call' = IF call.attempt < MaxAttempts
               THEN [call EXCEPT !.pc = "try"]
               ELSE [call EXCEPT !.pc = "raised",
                                 !.error = "Database is locked after multiple retries."]
    /\ UNCHANGED <<model, view, expenses, session, users, goals, stock_purchases>>

RetryStep == (\E o \in {"ok"} \cup OperationalErrors : Attempt(o)) \/ Sleep

NextRetry ==
    \/ \E q \in UpdateQueries : ExecuteWithRetry(q)
    \/ \E o \in {"ok"} \cup OperationalErrors : Attempt(o)
    \/ Sleep

\* the thread that runs the loop is scheduled and sleep returns
SpecRetry == InitRetry /\ [][NextRetry]_vars /\ WF_vars(RetryStep)

----------------------------------------------------------------------------
(* pages/Profile.py: the Update Profile form                               *)

ProfileNames == {"Ann", "Anna"}
ProfileUsernames == {"ann", "amy", "bob"}
ProfileEmails == {"ann@x", "a@y", ""}
OldPasswords == {"", "p1", "p2"}
NewPasswords == {"", "p2"}

\* SELECT password FROM users WHERE username = ?, fetchone()
StoredPassword(table, username) ==
    IF \E r \in table : r.username = username
    THEN (CHOOSE r \in table : r.username = username).password
    ELSE PyNone

\* a validation that accepts any password of an existing user
validate_old_password_AnyPassword(table, old_password, username) ==
    StoredPassword(table, username) # PyNone

validate_old_password(table, old_password, username) ==
    /\ StoredPassword(table, username) # PyNone
    /\ StoredPassword(table, username) = old_password

get_user_email(table, username) ==
    IF \E r \in table : r.username = username
    THEN (CHOOSE r \in table : r.username = username).email
    ELSE ""

\* the session keys the page sets before it shows the form
ProfileSession(s, table) ==
    LET s1 == [s EXCEPT !.username = IF @ = Absent THEN PyNone ELSE @,
                        !.email = IF @ = Absent THEN "" ELSE @]
    IN  IF Truthy(s1.username) /\ ~Truthy(s1.email)
           /\ Truthy(get_user_email(table, s1.username))
        THEN [s1 EXCEPT !.email = get_user_email(table, s1.username)]
        ELSE s1

\* the Profile page opened
ProfileRender ==
    /\ IF ~PassesGate(session)
       THEN /\ view' = PageView("Profile", "stopped")
            /\ UNCHANGED session
       ELSE /\ session' = ProfileSession(session, users)
            /\ view' = PageView("Profile",
                                IF Truthy(session'.username) THEN "form" ELSE "return")
    /\ UNCHANGED <<model, expenses, users, goals, stock_purchases, call>>

\* Update Profile submitted in the form the page showed; update_user with
\* its execute_with_retry either returns or raises
ProfileSubmit(name, username, email, old_password, new_password) ==
    /\ view.page = "Profile" /\ view.outcome \notin {"stopped", "return"}
    /\ IF ~PassesGate(session)
       THEN /\ view' = PageView("Profile", "stopped")
            /\ UNCHANGED <<session, users>>
       ELSE LET s == ProfileSession(session, users)
                password == IF new_password = ""
                            THEN StoredPassword(users, s.username)
                            ELSE new_password
                q == [name |-> name, username |-> username, email |-> email,
                      password |-> password, old_username |-> s.username]
            IN  IF ~Truthy(s.username)
                THEN /\ view' = PageView("Profile", "return")
                     /\ session' = s
                     /\ UNCHANGED users
                ELSE IF old_password = ""
                        \/ ~validate_old_password(users, old_password, s.username)
                THEN /\ view' = PageView("Profile", "rejected")
                     /\ session' = s
                     /\ UNCHANGED users
                ELSE \/ /\ UpdateUsers(users, q).error = ""
                        /\ users' = UpdateUsers(users, q).table
                        /\ session' = [s EXCEPT !.user = name,
                                                 !.username = username,
                                                 !.email = email]
                        /\ view' = PageView("Profile", "updated")
                     \/ /\ view' = PageView("Profile",
                                            IF UpdateUsers(users, q).error # ""
                                            THEN UpdateUsers(users, q).error
                                            ELSE "OperationalError")
                        /\ session' = s
                        /\ UNCHANGED users
    /\ UNCHANGED <<model, expenses, goals, stock_purchases, call>>

InitProfile ==
    /\ ModelIdle
    /\ view = NoView
    /\ expenses = <<>>
    /\ session = SessionOf(Ann)
    /\ users \in {{Ann}, {Ann, Bob}}
    /\ goals = <<>>
    /\ stock_purchases = <<>>
    /\ call = NoCall

NextProfile ==
    \/ ProfileRender
    \/ \E name \in ProfileNames, username \in ProfileUsernames,
          email \in ProfileEmails, old_password \in OldPasswords,
          new_password \in NewPasswords :
           ProfileSubmit(name, username, email, old_password, new_password)

SpecProfile == InitProfile /\ [][NextProfile]_vars

----------------------------------------------------------------------------
(* Expense History of Home.py and of pages/Expense.py: the paginated table *)

MaxRows == 12

page_size == 5

\* the rows of display_df are known by their Sr No; Amount of a row
AmountOf(sr_no) == (sr_no * 5) % 13

SortOrders == {"Amount (Low to High)", "Amount (High to Low)",
               "Sr No (Ascending)", "Sr No (Descending)"}

SortKey(sort_order, sr_no) ==
    IF sort_order = "Amount (Low to High)" THEN AmountOf(sr_no)
    ELSE IF sort_order = "Amount (High to Low)" THEN 0 - AmountOf(sr_no)
    ELSE IF sort_order = "Sr No (Ascending)" THEN sr_no
    ELSE 0 - sr_no

\* display_df.sort_values(by, ascending) over the rows 1..n
RECURSIVE SortValues(_, _)
SortValues(rows, sort_order) ==
    IF rows = {} THEN <<>>
    ELSE LET first == CHOOSE r \in rows :
                          \A q \in rows : SortKey(sort_order, r) <= SortKey(sort_order, q)
         IN  <<first>> \o SortValues(rows \ {first}, sort_order)

\* len(display_df) // page_size + (len(display_df) % page_size > 0)
TotalPages(n) == (n \div page_size) + (IF n % page_size > 0 THEN 1 ELSE 0)

\* display_df.iloc[start_idx:end_idx]
PageRows(display_df, page) ==
    LET start_idx == (page - 1) * page_size
        end_idx == start_idx + page_size
        last == IF end_idx < Len(display_df) THEN end_idx ELSE Len(display_df)
    IN  SubSeq(display_df, start_idx + 1, last)

History(app_page, pcv, n, lo, hi, page, rows) ==
    [kind |-> "history", pc |-> pcv, app |-> app_page, n |-> n,
     min_value |-> lo, max_value |-> hi, page |-> page, rows |-> rows]

\* the Expense History table of one script run: st.number_input raises
\* StreamlitAPIException when its default value, min_value, is above
\* max_value; pages/Expense.py shows the table only for a non-empty frame
ExpenseHistory(app_page, sort_order, page) ==
    /\ Truthy(session.user)
    /\ LET n == Len(expenses)
           display_df == SortValues(1..n, sort_order)
           total_pages == TotalPages(n)
       IN  IF app_page = "Expense" /\ n = 0
           THEN call' = History(app_page, "empty", n, 0, 0, 0, <<>>)
           ELSE IF 1 > total_pages
           THEN call' = History(app_page, "StreamlitAPIException", n,
                                1, total_pages, 0, <<>>)
           ELSE /\ page \in 1..total_pages
                /\ call' = History(app_page, "shown", n, 1, total_pages, page,
                                   PageRows(display_df, page))
    /\ view' = PageView(app_page, "history")
    /\ UNCHANGED <<model, expenses, session, users, goals, stock_purchases>>

\* the user has n expense rows
InitHistory ==
    /\ ModelIdle
    /\ view = NoView
    /\ \E n \in 0..MaxRows :
           expenses = [i \in 1..n |-> [owner |-> "ann", amount |-> AmountOf(i),
                                       category |-> "Food", description |-> <<>>]]
    /\ session = SessionOf(Ann)
    /\ users = {Ann}
    /\ goals = <<>>
    /\ stock_purchases = <<>>
    /\ call = NoCall

NextHistory ==
    \E app_page \in {"Home", "Expense"}, sort_order \in SortOrders,
       page \in 1..MaxRows :
        ExpenseHistory(app_page, sort_order, page)

SpecHistory == InitHistory /\ [][NextHistory]_vars

----------------------------------------------------------------------------
(* Main/Home.py: Login, Logout and the Forgot Password form                *)

\* bcrypt.hashpw, its salt left out: the hash of a password is not the password
hash_password(password) ==
    CASE password = "p1" -> "$2b$p1"
      [] password = "p2" -> "$2b$p2"
      [] OTHER -> "$2b$"

check_password(password, hashed) == hashed = hash_password(password)

\* the users rows of Main/data/users.db
Hashed(row) == [row EXCEPT !.password = hash_password(@)]

\* generate_captcha_text(), kept in the session; here one text
captcha_text == "AB12C"
Captchas == {captcha_text, "XXXXX"}

\* generate_reset_code(): str(random.randint(100000, 999999))
ResetCodes == {"100000", "999999"}

FormUsernames == {"ann", "bob", "zed"}

\* the session keys Home.py sets when they are missing
MainSession(s) ==
    [s EXCEPT !.user = IF @ = Absent THEN PyNone ELSE @,
              !.reset_code = IF @ = Absent THEN PyNone ELSE @,
              !.reset_username = IF @ = Absent THEN PyNone ELSE @]

\* UPDATE users SET password = ? WHERE username = ?
SetPassword(table, username, hashed_password) ==
    {IF r.username = username THEN [r EXCEPT !.password = hashed_password] ELSE r
        : r \in table}

\* the Logout button of the sidebar, shown while a user is logged in and
\* pressed between two script runs
Logout ==
    /\ Truthy(session.user)
    /\ call.pc \in {"none", "returned", "raised"}
    /\ session' = [session EXCEPT !.user = PyNone]
    /\ view' = PageView(IF view.page = "" THEN "Home" ELSE view.page, "logout")
    /\ UNCHANGED <<model, expenses, users, goals, stock_purchases, call>>

\* the Login form submitted
MainLogin(username, password, captcha_input) ==
    /\ ~Truthy(session.user)
    /\ IF captcha_input # captcha_text
       THEN /\ view' = PageView("Home", "Incorrect CAPTCHA")
            /\ session' = MainSession(session)
       ELSE IF \E r \in users : r.username = username /\ check_password(password, r.password)
       THEN /\ session' = [MainSession(session) EXCEPT
                              !.user = (CHOOSE r \in users : r.username = username).name,
                              !.username = username]
            /\ view' = PageView("Home", "rerun")
       ELSE /\ view' = PageView("Home", "Invalid username or password")
            /\ session' = MainSession(session)
    /\ UNCHANGED <<model, expenses, users, goals, stock_purchases, call>>

\* one script run of the Forgot Password form after the button `clicked`
\* of the form was pressed.  st.form_submit_button is True only in the run
\* its own click caused, and the Reset Password button is created inside
\* `if submit_forgot_password:`.
ForgotPasswordRun(clicked, username, captcha_input, code, sent, reset_code, new_password, confirm_password) ==
    /\ ~Truthy(session.user)
    /\ clicked = "Reset Password" => view = PageView("Home", "reset form")
    /\ LET submit_forgot_password == clicked = "Submit"
           reset_password == clicked = "Reset Password"
           s == MainSession(session)
           issued == [s EXCEPT !.reset_code = code, !.reset_username = username]
       IN  IF ~submit_forgot_password
           THEN /\ view' = PageView("Home", "forgot form")
                /\ session' = s
                /\ UNCHANGED users
           ELSE IF captcha_input # captcha_text
           THEN /\ view' = PageView("Home", "Incorrect CAPTCHA")
                /\ session' = s
                /\ UNCHANGED users
           ELSE IF ~\E r \in users : r.username = username
           THEN /\ view' = PageView("Home", "Username not found")
                /\ session' = s
                /\ UNCHANGED users
           ELSE IF ~sent
           THEN /\ view' = PageView("Home", "Failed to send reset email")
                /\ session' = issued
                /\ UNCHANGED users
           ELSE IF ~reset_password
           THEN /\ view' = PageView("Home", "reset form")
                /\ session' = issued
                /\ UNCHANGED users
           ELSE IF reset_code = issued.reset_code /\ new_password = confirm_password
           THEN /\ users' = SetPassword(users, username, hash_password(new_password))
                /\ view' = PageView("Home", "Password reset successful")
                /\ session' = issued
           ELSE /\ view' = PageView("Home", "Invalid reset code or password mismatch")
                /\ session' = issued
                /\ UNCHANGED users
    /\ UNCHANGED <<model, expenses, goals, stock_purchases, call>>

InitForgot ==
    /\ ModelIdle
    /\ view = NoView
    /\ expenses = <<>>
    /\ session = NoSession
    /\ users \in {{Hashed(Ann)}, {Hashed(Ann), Hashed(Bob)}}
    /\ goals = <<>>
    /\ stock_purchases = <<>>
    /\ call = NoCall

NextForgot ==
    \/ \E username \in FormUsernames, password \in Passwords,
          captcha_input \in Captchas :
           MainLogin(username, password, captcha_input)
    \/ Logout
    \/ \E clicked \in {"Submit", "Reset Password"}, username \in FormUsernames,
          captcha_input \in Captchas, code \in ResetCodes, sent \in BOOLEAN,
          reset_code \in ResetCodes, new_password \in Passwords,
          confirm_password \in Passwords :
           ForgotPasswordRun(clicked, username, captcha_input, code, sent,
                             reset_code, new_password, confirm_password)

SpecForgot == InitForgot /\ [][NextForgot]_vars

----------------------------------------------------------------------------
(* FinanceTracker/Home.py: Sign Up and Login, and the pages under pages/   *)

ProtectedPages == {"Goals", "Finances", "Profile"}

\* register_user: False on sqlite3.IntegrityError
register_user(table, row) ==
    IF \E r \in table : r.username = row.username
    THEN [ok |-> FALSE, table |-> table]
    ELSE [ok |-> TRUE, table |-> table \cup {row}]

\* login_user: the row with this username and password, or None
login_user(table, username, password) ==
    IF \E r \in table : r.username = username /\ r.password = password
    THEN CHOOSE r \in table : r.username = username /\ r.password = password
    ELSE [name |-> PyNone]

\* the Sign Up form submitted
SignUp(row, confirm_password) ==
    /\ ~Truthy(session.user)
    /\ session' = [session EXCEPT !.user = IF @ = Absent THEN PyNone ELSE @]
    /\ IF row.password # confirm_password
       THEN /\ view' = PageView("Home", "Passwords do not match")
            /\ UNCHANGED users
       ELSE /\ users' = register_user(users, row).table
            /\ view' = PageView("Home", IF register_user(users, row).ok
                                        THEN "Account created"
                                        ELSE "Username already exists")
    /\ UNCHANGED <<model, expenses, goals, stock_purchases, call>>

\* the Login form submitted
Login(username, password) ==
    /\ ~Truthy(session.user)
    /\ LET user == login_user(users, username, password)
       IN  IF user.name # PyNone
           THEN /\ session' = [session EXCEPT !.user = user.name,
                                              !.username = user.username]
                /\ view' = PageView("Home", "rerun")
           ELSE /\ session' = [session EXCEPT
                                  !.user = IF @ = Absent THEN PyNone ELSE @]
                /\ view' = PageView("Home", "Invalid username or password")
    /\ UNCHANGED <<model, expenses, users, goals, stock_purchases, call>>

\* a browser that has not logged in; the classifier of Home.py is cached
InitGate ==
    /\ split42 = CHOOSE f \in Shuffles : TRUE
    /\ cache = [p \in Pages |-> IF p = "Home" THEN Fitted(3, 0, 1) ELSE None]
    /\ pc = [p \in Pages |-> "idle"]
    /\ local = [p \in Pages |-> None]
    /\ vecFile = Pickle(Fitted(3, 0, 1).vectorizer)
    /\ modelFile = Pickle(Fitted(3, 0, 1).model)
    /\ runs = 1
    /\ view = NoView
    /\ expenses = <<>>
    /\ session = NoSession
    /\ users = {Ann}
    /\ goals = <<>>
    /\ stock_purchases = <<>>
    /\ call = NoCall

NextGate ==
    \/ \E password \in Passwords : SignUp(Bob, password)
    \/ \E password \in Passwords : Login("ann", password)
    \/ Logout
    \/ SetGoal(1, <<"a">>)
    \/ \E id \in 1..MaxGoals : UpdateSaved(id, 1)
    \/ AddPurchase("TCS", 1, 3, 1)
    \/ AddExpense
    \/ ProfileRender
    \/ \E old_password \in Passwords :
           ProfileSubmit("Ann", "ann", "a@y", old_password, "")

SpecGate == InitGate /\ [][NextGate]_vars

----------------------------------------------------------------------------
(* Properties *)

\* Untrained, Training, Ready of one decorated function
PipelineState(p) ==
    IF cache[p] # None THEN "Ready"
    ELSE IF pc[p] # "idle" THEN "Training"
    ELSE "Untrained"

IsBlank(d) == \A i \in DOMAIN d : d[i] = " "

\* the fitted pairs that exist: the memoised ones and the one on disk
FittedPairs ==
    {cache[p] : p \in {q \in Pages : cache[q] # None}}
    \cup (IF ArtifactLoadable /\ Unpickle(vecFile).run = Unpickle(modelFile).run
          THEN {[vectorizer |-> Unpickle(vecFile), model |-> Unpickle(modelFile)]}
          ELSE {})

Label(pair, d) == predict_category(pair.vectorizer, pair.model, d).label

C2_TrainedAtMostOnce ==
    \A p, q \in Pages :
        (cache[p] # None /\ cache[q] # None) => cache[p].model.run = cache[q].model.run

\* C3: within a process each pipeline moves only Untrained -> Training,
\* Training -> Ready (no exception) and Training -> Untrained (the exception
\* reaches the page, nothing is memoised); an Untrained pipeline trains
\* again on the next call.
C3_PipelineTransitions ==
    /\ [][view'.outcome # "restarted" =>
            \A p \in Pages :
                \/ PipelineState(p)' = PipelineState(p)
                \/ PipelineState(p) = "Untrained" /\ PipelineState(p)' = "Training"
                \/ /\ PipelineState(p) = "Training" /\ PipelineState(p)' = "Ready"
                   /\ view'.outcome # "crashed"
                \/ /\ PipelineState(p) = "Training" /\ PipelineState(p)' = "Untrained"
                   /\ view'.outcome = "crashed" /\ view'.page = p
                   /\ cache'[p] = None]_vars
    /\ [](\A p \in Pages :
            (PipelineState(p) = "Untrained" /\ runs < MaxRuns)
                => \A csv \in {FileMissing} \cup DatasetIds : ENABLED Train(p, csv))

C3_Witness ==
    \E p \in Pages :
        /\ view = Crashed(p, <<>>, "OSError", FALSE)
        /\ PipelineState(p) = "Untrained"
        /\ vecFile # None

\* C4: an empty or whitespace-only description yields "" and neither
\* transform nor predict is invoked.
C4_BlankGivesNoPrediction ==
    (view.outcome \in {"form", "crashed"} /\ view.page # "none" /\ IsBlank(view.desc))
        => (view.predicted = "" /\ ~view.invoked)

\* C5: closure.  After load_and_train_model on a training set with at least
\* two categories, the label predicted for a non-blank description is a
\* category of that training set.
C5_Closure ==
    \A p \in Pages :
        (/\ view.page = p /\ view.outcome = "form" /\ ~IsBlank(view.desc)
         /\ cache[p] # None
         /\ Cardinality(LabelSet(Datasets[cache[p].model.data])) >= 2)
            => view.predicted \in LabelSet(Datasets[cache[p].model.data])

C5_Witness ==
    \E p \in Pages :
        /\ view.page = p /\ view.outcome = "form" /\ view.desc = <<"a">>
        /\ view.invoked
        /\ cache[p] # None
        /\ view.predicted \in LabelSet(Datasets[cache[p].model.data])
        /\ cache[p].model.classes # LabelSet(Datasets[cache[p].model.data])

\* C6: determinism.  Two training runs from the same file contents give
\* pairs that predict the same label for every description.
C6_Deterministic ==
    \A a, b \in FittedPairs :
        a.model.data = b.model.data
            => \A d \in Descriptions : Label(a, d) = Label(b, d)

\* C7: the two files always hold a pair of one training run, or no
\* loadable artifact.
C7_ConsistentPair ==
    ArtifactLoadable => Unpickle(vecFile).run = Unpickle(modelFile).run

\* C8: a failed artifact write is not fatal: the call still returns the
\* fitted pair and the pipeline is Ready.
C8_WriteFailureNotFatal ==
    \A p \in Pages :
        (view.page = p /\ view.error = "OSError") => PipelineState(p) = "Ready"

\* C9: when training, loading or predicting fails the page still draws its
\* form, so an expense can be recorded by hand.
C9_FormAlwaysDrawn ==
    view.outcome # "crashed"

\* C10: with a loaded pair, an error in transform or predict makes
\* predict_category return ""; it never raises to the page.
C10_PredictNeverRaises ==
    view.invoked => (view.error = "" /\ view.outcome = "form")

C12_Idempotent ==
    /\ [][view'.outcome # "restarted" =>
            \A p \in Pages :
                cache[p] # None
                    => /\ cache'[p] = cache[p]
                       /\ (view'.page = p /\ view'.outcome = "form")
                            => view'.predicted = Label(cache[p], view'.desc)]_vars
    /\ [](\A p \in Pages :
            cache[p] # None
                => \A csv \in {FileMissing} \cup DatasetIds : ~ENABLED Train(p, csv))

C12_Witness ==
    \E p, q \in Pages :
        /\ cache[p] # None /\ cache[q] # None /\ cache[q] # cache[p]
        /\ view = Form(p, <<"a">>,
                       predict_category(cache[p].vectorizer, cache[p].model, <<"a">>))

C14_StoresSelectedCategory ==
    /\ (view.page \in Pages /\ view.outcome = "form" /\ ~IsBlank(view.desc))
            => (view.options = <<view.predicted>> \o Fallback /\ view.predicted # "")
    /\ (view.submitted = "saved" /\ view.selected # "")
            => expenses[Len(expenses)].category = view.selected

\* C15: frame.  The prediction made while a page draws its form changes
\* neither the memoised pair, nor the artifact files, nor the expense rows,
\* and asking again for the same description gives the same label.
C15_PredictIsPure ==
    [][\A p \in Pages :
          (view'.page = p /\ view'.outcome = "form" /\ view'.submitted = "")
              => /\ UNCHANGED <<cache, vecFile, modelFile, expenses>>
                 /\ view'.predicted = Label(cache[p], view'.desc)
                 /\ Label(cache'[p], view'.desc) = view'.predicted]_vars

C15_Witness ==
    \E p \in Pages :
        /\ cache[p] # None /\ ArtifactLoadable
        /\ Unpickle(modelFile) # cache[p].model
        /\ view.page = p /\ view.outcome = "form" /\ view.invoked

\* C16: a Ready pipeline returns exactly one label, a class of its
\* classifier, for every vector, the all-zero vector of a description
\* without any known term included; there is no empty or sentinel result.
C16_AlwaysOneLabel ==
    \A p \in Pages :
        cache[p] # None
            => /\ \A d \in Descriptions :
                    LET r == Predict(cache[p].model, Transform(cache[p].vectorizer, d))
                    IN  r.error = "" /\ r.label \in cache[p].model.classes
               /\ (view.page = p /\ view.invoked)
                    => (view.outcome = "form" /\ view.predicted \in cache[p].model.classes)

C16_Witness ==
    \E p \in Pages :
        /\ cache[p] # None
        /\ view.page = p /\ view.outcome = "form" /\ view.invoked
        /\ ~IsBlank(view.desc)
        /\ Support(Transform(cache[p].vectorizer, view.desc)) = {}
        /\ view.predicted \in cache[p].model.classes

\* C17: frame.  A fitted vectorizer is never changed: after any number of
\* transforms the memoised one is the one fit produced from the dataset.
C17_VocabularyFixed ==
    \A p \in Pages :
        cache[p] # None
            => LET vz == cache[p].vectorizer
               IN  /\ vz = FitVectorizer(Corpus(Datasets[vz.data]), vz.run, vz.data)
                   /\ vz.vocab = Vocabulary(Corpus(Datasets[vz.data]))

C17_Witness ==
    \E p \in Pages :
        /\ cache[p] # None
        /\ view.page = p /\ view.outcome = "form" /\ view.invoked
        /\ ~(Range(Tokenize(view.desc)) \subseteq cache[p].vectorizer.vocab)

\* C18: transform yields a vector with exactly the columns of the fit, with
\* zero weight for every fitted term the description does not contain, so
\* the classifier fitted in the same run never sees another width.
C18_FitTimeDimension ==
    \A p \in Pages :
        cache[p] # None
            => /\ \A d \in Descriptions :
                    LET v == Transform(cache[p].vectorizer, d)
                    IN  /\ DOMAIN v = cache[p].vectorizer.vocab
                        /\ Cardinality(DOMAIN v) = cache[p].model.n_features
                        /\ \A t \in DOMAIN v :
                              t \notin Range(Tokenize(d)) => v[t] = 0
               /\ view.page = p => view.error # "ValueError"

C18_Witness ==
    \E p \in Pages :
        /\ cache[p] # None
        /\ view.page = p /\ view.outcome = "form" /\ view.invoked
        /\ \E t \in cache[p].vectorizer.vocab :
              Transform(cache[p].vectorizer, view.desc)[t] = 0
        /\ \E t \in cache[p].vectorizer.vocab :
              Transform(cache[p].vectorizer, view.desc)[t] > 0

C21_SplitAndFitOnTrain ==
    /\ \A n \in SplitSizes :
         /\ split42[n] \cap TrainRows(n) = {}
         /\ split42[n] \cup TrainRows(n) = 1..n
         /\ Cardinality(split42[n]) = NTest(n)
         /\ Cardinality(TrainRows(n)) = NTrain(n)
         /\ n % 5 = 0 => (5 * NTest(n) = n /\ 5 * NTrain(n) = 4 * n)
    /\ \A p \in Pages :
         cache[p] # None
            => LET rows == Datasets[cache[p].model.data]
               IN  cache[p].model.classes
                     = {rows[k][2] : k \in (1..Len(rows)) \ split42[Len(rows)]}
    /\ \A a, b \in FittedPairs :
         a.model.data = b.model.data => a.model.classes = b.model.classes

C21_Witness ==
    \E p, q \in Pages :
        /\ cache[p] # None /\ cache[q] # None
        /\ cache[p].model.run # cache[q].model.run
        /\ cache[p].model.data = cache[q].model.data
        /\ LET rows == Datasets[cache[p].model.data]
           IN  \E k \in split42[Len(rows)] : rows[k][2] \notin cache[p].model.classes

C23_RetryAtMostFive ==
    /\ [](call.kind = "execute_with_retry"
            => /\ call.attempt \in 0..MaxAttempts
               /\ call.pc = "returned" => call.last = "ok"
               /\ call.pc = "sleep" => ContainsLocked(call.last)
               /\ (call.pc = "try" /\ call.attempt > 0) => ContainsLocked(call.last)
               /\ (call.pc = "raised" /\ call.last \in OperationalErrors)
                    => \/ ~ContainsLocked(call.last) /\ call.error = call.last
                       \/ /\ ContainsLocked(call.last) /\ call.attempt = MaxAttempts
                          /\ call.error = "Database is locked after multiple retries.")
    /\ [][(call.kind = "execute_with_retry" /\ call'.query = call.query
            /\ call'.attempt # 0)
            => /\ call'.attempt \in {call.attempt, call.attempt + 1}
               /\ call.pc \in {"returned", "raised"} => call' = call
               /\ users' # users => call'.pc = "returned"]_vars
    /\ ((call.kind = "execute_with_retry" /\ call.pc \in {"try", "sleep"})
            ~> (call.pc \in {"returned", "raised"}))

C23_Witness ==
    /\ call.kind = "execute_with_retry"
    /\ call.pc = "raised"
    /\ call.attempt = MaxAttempts
    /\ call.error = "Database is locked after multiple retries."

\* C25: after any sequence of Add Expense and Edit Expense submissions
\* every stored expense has a non-empty description and an amount greater
\* than 0 and at most DEFAULT_EXPENSE_LIMIT, and a rejected submission
\* leaves the table unchanged.
C25_StoredWithinLimit ==
    /\ [](\A k \in DOMAIN expenses :
            /\ expenses[k].description # <<>>
            /\ expenses[k].amount > 0
            /\ expenses[k].amount <= DEFAULT_EXPENSE_LIMIT)
    /\ [][view'.submitted \in {"required", "limit"} => expenses' = expenses]_vars

\* C27: every goal has goal_amount > 0 and 0 <= saved_amount <= goal_amount
\* after any sequence of Set Goal and Update submissions; a new goal starts
\* with saved_amount 0, and a submission with amount <= 0 or with a blank
\* description creates no goal.
C27_GoalBounds ==
    /\ [](\A id \in DOMAIN goals :
            /\ goals[id].goal_amount > 0
            /\ goals[id].saved_amount >= 0
            /\ goals[id].saved_amount <= goals[id].goal_amount)
    /\ [][Len(goals') # Len(goals)
            => /\ Len(goals') = Len(goals) + 1
               /\ SubSeq(goals', 1, Len(goals)) = goals
               /\ goals'[Len(goals')].saved_amount = 0]_vars
    /\ [][\A a \in GoalAmounts, d \in Descriptions :
            (SetGoal(a, d) /\ (a <= 0 \/ IsBlank(d))) => goals' = goals]_vars

C27_Witness ==
    \E i, j \in DOMAIN goals :
        /\ goals[i].saved_amount = goals[i].goal_amount
        /\ goals[j].saved_amount = 0
        /\ view = PageView("Goals", "rejected")

\* C28: add_stock_purchase adds exactly one stock_purchases row and exactly
\* one expense row (category Stocks, amount = quantity * purchase_price, same
\* owner and date), and once the call is over, also when it failed part-way,
\* no stock purchase row is without its expense row.
C28_PurchaseWithExpense ==
    call.pc \in {"none", "returned", "raised"}
        => /\ Len(expenses) = Len(stock_purchases)
           /\ \A i \in DOMAIN stock_purchases :
                  expenses[i] = StockExpense(stock_purchases[i])

\* C29: a profile update is applied only when the supplied current password
\* matches the stored password of the session's username; applied with an
\* empty new password it leaves the stored password unchanged, and afterwards
\* the session's user, username and email equal the values written to the
\* users row; a rejected update changes neither the users row nor the session.
C29_ProfileUpdate ==
    [][\A name \in ProfileNames, username \in ProfileUsernames,
         email \in ProfileEmails, old_password \in OldPasswords,
         new_password \in NewPasswords :
          ProfileSubmit(name, username, email, old_password, new_password)
          => /\ (users' # users \/ session' # session
                    \/ view'.outcome = "updated")
                    => old_password = StoredPassword(users, session.username)
             /\ (view'.outcome = "updated" /\ new_password = "")
                    => StoredPassword(users', username)
                          = StoredPassword(users, session.username)
             /\ view'.outcome = "updated"
                    => /\ [name |-> session'.user, username |-> session'.username,
                            email |-> session'.email,
                            password |-> StoredPassword(users', username)]
                              \in users'
                       /\ session'.user = name /\ session'.username = username
                       /\ session'.email = email
                       /\ \A r \in users' :
                              r.username # username => r \in users
             /\ view'.outcome # "updated"
                    => users' = users /\ session' = session]_vars

C29_Witness ==
    /\ view = PageView("Profile", "updated")
    /\ session.username = "amy" /\ session.user = "Anna"
    /\ [name |-> "Anna", username |-> "amy", email |-> session.email,
         password |-> "p1"] \in users

\* C30: with page_size 5, for every number n >= 0 of expense rows
\* total_pages is ceil(n/5), the page range 1..total_pages has its minimum
\* not above its maximum, and the slices of pages 1..total_pages hold every
\* row exactly once, at most 5 rows each.
C30_Pagination ==
    LET n == Len(expenses)
        ceil == CHOOSE q \in 0..n : q * 5 >= n /\ (q - 1) * 5 < n
    IN  /\ TotalPages(n) = ceil
        /\ (call.kind = "history" /\ call.pc # "empty")
               => /\ call.min_value <= call.max_value
                  /\ call.max_value = ceil
        /\ \A sort_order \in SortOrders :
               LET display_df == SortValues(1..n, sort_order)
               IN  /\ \A p \in 1..TotalPages(n) :
                          Len(PageRows(display_df, p)) \in 1..5
                   /\ \A r \in 1..n :
                          \E p \in 1..TotalPages(n) :
                              /\ \E i \in DOMAIN PageRows(display_df, p) :
                                     PageRows(display_df, p)[i] = r
                              /\ \A q \in 1..TotalPages(n), j \in 1..5 :
                                     (j <= Len(PageRows(display_df, q))
                                        /\ PageRows(display_df, q)[j] = r)
                                     => q = p /\ \A i \in 1..Len(PageRows(display_df, p)) : PageRows(display_df, p)[i] = r => i = j

C24_GateBeforeWrites ==
    [][~PassesGate(session)
          => /\ view'.page \in ProtectedPages
                   => /\ view'.outcome = "stopped"
                      /\ UNCHANGED <<expenses, goals, stock_purchases, users, session>>
             /\ UNCHANGED <<expenses, goals, stock_purchases>>
             /\ users' # users => view'.page = "Home"
             /\ PassesGate(session') => view' = PageView("Home", "rerun")]_vars

C24_Witness ==
    /\ session.user = PyNone
    /\ view = PageView("Goals", "stopped")
    /\ Len(goals) > 0 /\ Len(stock_purchases) > 0

====
